---- MODULE Spec2Model ----
(***************************************************************************)
(* River-crossing puzzle engine (wolf, sheep, cabbage): the game state of  *)
(* game.rs, the grid geometry of world.rs, the interaction resolver of     *)
(* interaction.rs and the per-frame update of main.rs.                     *)
(*                                                                         *)
(* Time is counted in whole time units: crossing_timer and the frame       *)
(* delta dt are naturals, CROSSING_DURATION is 2.  The boat's progress     *)
(* (timer / CROSSING_DURATION).min(1.0) is kept as the exact fraction      *)
(* num / den.                                                              *)
(***************************************************************************)
EXTENDS Integers, Sequences, FiniteSets, TLC

-----------------------------------------------------------------------------
(* Bounds of the model *)

\* Largest frame delta, in time units, the driver hands to a frame.
MaxDt == 2
\* The driver stops issuing CrossRiver once this many crossings completed.
MaxCrossings == 7
\* The driver walks the player along the dock row, on columns within ColReach
\* of the river band,
ColReach == 3
\* and along the column the entities start on, on rows within RowReach of the
\* dock row.
RowReach == 1
\* The driver presses Interact for a Drop at most MaxDrops times per game.
MaxDrops == 1
\* Longest run of update_crossing calls a crossing is followed through.
MaxUpdates == 3

-----------------------------------------------------------------------------
(* world.rs *)

GRID_COLS == 12
GRID_ROWS == 8
LEFT_BANK_COL_MIN == 0
LEFT_BANK_COL_MAX == 3
RIVER_COL_MIN == 4
RIVER_COL_MAX == 7
RIGHT_BANK_COL_MIN == 8
RIGHT_BANK_COL_MAX == 11
DOCK_ROW == 4

GridPos(c, r) == [col |-> c, row |-> r]

LEFT_DOCK == GridPos(3, DOCK_ROW)
RIGHT_DOCK == GridPos(8, DOCK_ROW)
PLAYER_START == GridPos(2, 4)
WOLF_START == GridPos(1, 2)
SHEEP_START == GridPos(1, 4)
CABBAGE_START == GridPos(1, 6)

Bank == {"Left", "Right"}
Direction == {"Up", "Down", "Left", "Right"}
\* Option::None, for Option<Entity>, Option<Bank>, Option<LoseReason>
None == "None"

opposite(bank) == IF bank = "Left" THEN "Right" ELSE "Left"

delta(dir) ==
    CASE dir = "Up" -> <<0, -1>>
      [] dir = "Down" -> <<0, 1>>
      [] dir = "Left" -> <<-1, 0>>
      [] dir = "Right" -> <<1, 0>>

step(pos, dir) == GridPos(pos.col + delta(dir)[1], pos.row + delta(dir)[2])

\* is_walkable without the test for the river columns
is_walkable_on_water(pos) ==
    /\ pos.row >= 0
    /\ pos.row < GRID_ROWS
    /\ pos.col >= 0
    /\ pos.col < GRID_COLS

is_walkable(pos) ==
    /\ pos.row >= 0
    /\ pos.row < GRID_ROWS
    /\ pos.col >= 0
    /\ pos.col < GRID_COLS
    /\ ~(pos.col >= RIVER_COL_MIN /\ pos.col <= RIVER_COL_MAX)

bank_of(pos) ==
    IF pos.col >= LEFT_BANK_COL_MIN /\ pos.col <= LEFT_BANK_COL_MAX THEN "Left"
    ELSE IF pos.col >= RIGHT_BANK_COL_MIN /\ pos.col <= RIGHT_BANK_COL_MAX THEN "Right"
    ELSE None

Abs(x) == IF x < 0 THEN -x ELSE x

is_adjacent(a, b) == Abs(a.col - b.col) + Abs(a.row - b.row) <= 1

dock_for(bank) == IF bank = "Left" THEN LEFT_DOCK ELSE RIGHT_DOCK

is_dock_position(pos, bank) == pos = dock_for(bank)

-----------------------------------------------------------------------------
(* game.rs: types *)

Entity == {"Wolf", "Sheep", "Cabbage"}

OnBank(bank, pos) == [tag |-> "OnBank", bank |-> bank, pos |-> pos]
FollowingPlayer == [tag |-> "FollowingPlayer"]
EntityOnBoat == [tag |-> "OnBoat"]

OnLand(pos) == [tag |-> "OnLand", pos |-> pos]
PlayerOnBoat == [tag |-> "OnBoat"]

CROSSING_DURATION == 2

Docked(bank) == [tag |-> "Docked", bank |-> bank]
\* progress is the fraction num / den
Crossing(from, num) ==
    [tag |-> "Crossing", from |-> from,
     progress |-> [num |-> num, den |-> CROSSING_DURATION]]

Playing == [tag |-> "Playing"]
Won == [tag |-> "Won"]
Lost(reason) == [tag |-> "Lost", reason |-> reason]

PickUp(e) == [tag |-> "PickUp", entity |-> e]
Drop(e) == [tag |-> "Drop", entity |-> e]
LoadOntoBoat(e) == [tag |-> "LoadOntoBoat", entity |-> e]
UnloadFromBoat(e) == [tag |-> "UnloadFromBoat", entity |-> e]
BoardBoat == [tag |-> "BoardBoat"]
UnboardBoat == [tag |-> "UnboardBoat"]
\* resolve_interaction returned Option::None
NoAction == [tag |-> "NoAction"]

-----------------------------------------------------------------------------
(* The GameState aggregate *)

VARIABLES phase, player, entities, follower, boat, boat_cargo,
          crossing_timer, crossing_count,
          drops   \* Drop actions executed since the game was (re)started

vars == <<phase, player, entities, follower, boat, boat_cargo,
          crossing_timer, crossing_count, drops>>

\* The aggregate as one value; the methods below map a GameState to a GameState.
State ==
    [phase |-> phase, player |-> player, entities |-> entities,
     follower |-> follower, boat |-> boat, boat_cargo |-> boat_cargo,
     crossing_timer |-> crossing_timer, crossing_count |-> crossing_count]

new ==
    [phase |-> Playing,
     player |-> OnLand(PLAYER_START),
     entities |-> [e \in Entity |->
                     CASE e = "Wolf" -> OnBank("Left", WOLF_START)
                       [] e = "Sheep" -> OnBank("Left", SHEEP_START)
                       [] e = "Cabbage" -> OnBank("Left", CABBAGE_START)],
     follower |-> None,
     boat |-> Docked("Left"),
     boat_cargo |-> None,
     crossing_timer |-> 0,
     crossing_count |-> 0]

\* reset rebuilding the state but for the crossings counted so far
reset_keeps_crossing_count(s) ==
    [new EXCEPT !.crossing_count = s.crossing_count]

reset(s) == new

entity_location(s, entity) == s.entities[entity]

set_entity_location(s, entity, loc) ==
    [s EXCEPT !.entities = [s.entities EXCEPT ![entity] = loc]]

entities_on_bank(s, bank) ==
    {e \in Entity :
        /\ s.follower # e
        /\ s.entities[e].tag = "OnBank"
        /\ s.entities[e].bank = bank}

\* try_move_player with the follower put on the tile the player steps onto
try_move_player_follower_on_new_pos(s, dir) ==
    IF s.player.tag # "OnLand" THEN [ok |-> FALSE, st |-> s]
    ELSE LET pos == s.player.pos
             new_pos == step(pos, dir)
         IN IF ~is_walkable(new_pos) THEN [ok |-> FALSE, st |-> s]
            ELSE LET moved == [s EXCEPT !.player = OnLand(new_pos)]
                 IN [ok |-> TRUE,
                     st |-> IF s.follower # None
                            THEN set_entity_location(moved, s.follower,
                                     OnBank(bank_of(new_pos), new_pos))
                            ELSE moved]

\* try_move_player writing the player's position before the walkability test
try_move_player_steps_before_test(s, dir) ==
    IF s.player.tag # "OnLand" THEN [ok |-> FALSE, st |-> s]
    ELSE LET pos == s.player.pos
             new_pos == step(pos, dir)
             moved == [s EXCEPT !.player = OnLand(new_pos)]
         IN IF ~is_walkable(new_pos) THEN [ok |-> FALSE, st |-> moved]
            ELSE [ok |-> TRUE,
                  st |-> IF s.follower # None
                         THEN set_entity_location(moved, s.follower,
                                  OnBank(bank_of(new_pos), pos))
                         ELSE moved]

\* try_move_player leaving the follower's stored location as it was
try_move_player_follower_not_relocated(s, dir) ==
    IF s.player.tag # "OnLand" THEN [ok |-> FALSE, st |-> s]
    ELSE LET pos == s.player.pos
             new_pos == step(pos, dir)
         IN IF ~is_walkable(new_pos) THEN [ok |-> FALSE, st |-> s]
            ELSE [ok |-> TRUE, st |-> [s EXCEPT !.player = OnLand(new_pos)]]

\* try_move_player: the returned flag and the state it leaves
try_move_player(s, dir) ==
    IF s.player.tag # "OnLand" THEN [ok |-> FALSE, st |-> s]
    ELSE LET pos == s.player.pos
             new_pos == step(pos, dir)
         IN IF ~is_walkable(new_pos) THEN [ok |-> FALSE, st |-> s]
            ELSE LET moved == [s EXCEPT !.player = OnLand(new_pos)]
                 IN [ok |-> TRUE,
                     st |-> IF s.follower # None
                            THEN set_entity_location(moved, s.follower,
                                     OnBank(bank_of(new_pos), pos))
                            ELSE moved]

\* execute_action with UnloadFromBoat recording the bank across the river
execute_action_unload_on_far_bank(s, action) ==
    CASE action.tag = "PickUp" ->
           set_entity_location([s EXCEPT !.follower = action.entity],
                               action.entity, FollowingPlayer)
      [] action.tag = "Drop" ->
           LET cleared == [s EXCEPT !.follower = None]
           IN IF s.player.tag = "OnLand" /\ bank_of(s.player.pos) # None
              THEN set_entity_location(cleared, action.entity,
                       OnBank(bank_of(s.player.pos), s.player.pos))
              ELSE cleared
      [] action.tag = "LoadOntoBoat" ->
           set_entity_location(
               [s EXCEPT !.follower = None, !.boat_cargo = action.entity],
               action.entity, EntityOnBoat)
      [] action.tag = "UnloadFromBoat" ->
           LET cleared == [s EXCEPT !.boat_cargo = None]
           IN IF s.boat.tag = "Docked"
              THEN set_entity_location(cleared, action.entity,
                       OnBank(opposite(s.boat.bank), dock_for(s.boat.bank)))
              ELSE cleared
      [] action.tag = "BoardBoat" ->
           [s EXCEPT !.player = PlayerOnBoat]
      [] action.tag = "UnboardBoat" ->
           IF s.boat.tag = "Docked"
           THEN LET dock == dock_for(s.boat.bank)
                    landed == [s EXCEPT !.player = OnLand(dock)]
                IN IF s.follower # None
                   THEN [set_entity_location(landed, s.follower,
                             OnBank(s.boat.bank, dock))
                         EXCEPT !.follower = None]
                   ELSE landed
           ELSE s

\* execute_action with Drop leaving the follower set
execute_action_drop_keeps_follower(s, action) ==
    CASE action.tag = "PickUp" ->
           set_entity_location([s EXCEPT !.follower = action.entity],
                               action.entity, FollowingPlayer)
      [] action.tag = "Drop" ->
           LET cleared == s
           IN IF s.player.tag = "OnLand" /\ bank_of(s.player.pos) # None
              THEN set_entity_location(cleared, action.entity,
                       OnBank(bank_of(s.player.pos), s.player.pos))
              ELSE cleared
      [] action.tag = "LoadOntoBoat" ->
           set_entity_location(
               [s EXCEPT !.follower = None, !.boat_cargo = action.entity],
               action.entity, EntityOnBoat)
      [] action.tag = "UnloadFromBoat" ->
           LET cleared == [s EXCEPT !.boat_cargo = None]
           IN IF s.boat.tag = "Docked"
              THEN set_entity_location(cleared, action.entity,
                       OnBank(s.boat.bank, dock_for(s.boat.bank)))
              ELSE cleared
      [] action.tag = "BoardBoat" ->
           [s EXCEPT !.player = PlayerOnBoat]
      [] action.tag = "UnboardBoat" ->
           IF s.boat.tag = "Docked"
           THEN LET dock == dock_for(s.boat.bank)
                    landed == [s EXCEPT !.player = OnLand(dock)]
                IN IF s.follower # None
                   THEN [set_entity_location(landed, s.follower,
                             OnBank(s.boat.bank, dock))
                         EXCEPT !.follower = None]
                   ELSE landed
           ELSE s

\* execute_action with LoadOntoBoat leaving the follower set
execute_action_load_keeps_follower(s, action) ==
    CASE action.tag = "PickUp" ->
           set_entity_location([s EXCEPT !.follower = action.entity],
                               action.entity, FollowingPlayer)
      [] action.tag = "Drop" ->
           LET cleared == [s EXCEPT !.follower = None]
           IN IF s.player.tag = "OnLand" /\ bank_of(s.player.pos) # None
              THEN set_entity_location(cleared, action.entity,
                       OnBank(bank_of(s.player.pos), s.player.pos))
              ELSE cleared
      [] action.tag = "LoadOntoBoat" ->
           set_entity_location(
               [s EXCEPT !.boat_cargo = action.entity],
               action.entity, EntityOnBoat)
      [] action.tag = "UnloadFromBoat" ->
           LET cleared == [s EXCEPT !.boat_cargo = None]
           IN IF s.boat.tag = "Docked"
              THEN set_entity_location(cleared, action.entity,
                       OnBank(s.boat.bank, dock_for(s.boat.bank)))
              ELSE cleared
      [] action.tag = "BoardBoat" ->
           [s EXCEPT !.player = PlayerOnBoat]
      [] action.tag = "UnboardBoat" ->
           IF s.boat.tag = "Docked"
           THEN LET dock == dock_for(s.boat.bank)
                    landed == [s EXCEPT !.player = OnLand(dock)]
                IN IF s.follower # None
                   THEN [set_entity_location(landed, s.follower,
                             OnBank(s.boat.bank, dock))
                         EXCEPT !.follower = None]
                   ELSE landed
           ELSE s

execute_action(s, action) ==
    CASE action.tag = "PickUp" ->
           set_entity_location([s EXCEPT !.follower = action.entity],
                               action.entity, FollowingPlayer)
      [] action.tag = "Drop" ->
           LET cleared == [s EXCEPT !.follower = None]
           IN IF s.player.tag = "OnLand" /\ bank_of(s.player.pos) # None
              THEN set_entity_location(cleared, action.entity,
                       OnBank(bank_of(s.player.pos), s.player.pos))
              ELSE cleared
      [] action.tag = "LoadOntoBoat" ->
           set_entity_location(
               [s EXCEPT !.follower = None, !.boat_cargo = action.entity],
               action.entity, EntityOnBoat)
      [] action.tag = "UnloadFromBoat" ->
           LET cleared == [s EXCEPT !.boat_cargo = None]
           IN IF s.boat.tag = "Docked"
              THEN set_entity_location(cleared, action.entity,
                       OnBank(s.boat.bank, dock_for(s.boat.bank)))
              ELSE cleared
      [] action.tag = "BoardBoat" ->
           [s EXCEPT !.player = PlayerOnBoat]
      [] action.tag = "UnboardBoat" ->
           IF s.boat.tag = "Docked"
           THEN LET dock == dock_for(s.boat.bank)
                    landed == [s EXCEPT !.player = OnLand(dock)]
                IN IF s.follower # None
                   THEN [set_entity_location(landed, s.follower,
                             OnBank(s.boat.bank, dock))
                         EXCEPT !.follower = None]
                   ELSE landed
           ELSE s

\* start_crossing leaving the elapsed timer of the previous crossing
start_crossing_keeps_timer(s) ==
    IF s.player # PlayerOnBoat THEN [ok |-> FALSE, st |-> s]
    ELSE IF s.boat.tag # "Docked" THEN [ok |-> FALSE, st |-> s]
    ELSE [ok |-> TRUE,
          st |-> [s EXCEPT !.boat = Crossing(s.boat.bank, 0)]]

start_crossing(s) ==
    IF s.player # PlayerOnBoat THEN [ok |-> FALSE, st |-> s]
    ELSE IF s.boat.tag # "Docked" THEN [ok |-> FALSE, st |-> s]
    ELSE [ok |-> TRUE,
          st |-> [s EXCEPT !.boat = Crossing(s.boat.bank, 0),
                           !.crossing_timer = 0]]

Min(a, b) == IF a <= b THEN a ELSE b

\* update_crossing counting a crossing at every update
update_crossing_counts_every_update(s, dt) ==
    IF s.boat.tag = "Crossing"
    THEN LET timer == s.crossing_timer + dt
             num == Min(timer, CROSSING_DURATION)
         IN IF num >= CROSSING_DURATION
            THEN [s EXCEPT !.crossing_timer = timer,
                           !.boat = Docked(opposite(s.boat.from)),
                           !.crossing_count = s.crossing_count + 1]
            ELSE [s EXCEPT !.crossing_timer = timer,
                           !.boat = Crossing(s.boat.from, num),
                           !.crossing_count = s.crossing_count + 1]
    ELSE s

\* update_crossing docking the boat at the bank it left
update_crossing_docks_at_origin(s, dt) ==
    IF s.boat.tag = "Crossing"
    THEN LET timer == s.crossing_timer + dt
             num == Min(timer, CROSSING_DURATION)
         IN IF num >= CROSSING_DURATION
            THEN [s EXCEPT !.crossing_timer = timer,
                           !.boat = Docked(s.boat.from),
                           !.crossing_count = s.crossing_count + 1]
            ELSE [s EXCEPT !.crossing_timer = timer,
                           !.boat = Crossing(s.boat.from, num)]
    ELSE s

\* update_crossing counting the arrivals at the left bank only
update_crossing_counts_round_trips(s, dt) ==
    IF s.boat.tag = "Crossing"
    THEN LET timer == s.crossing_timer + dt
             num == Min(timer, CROSSING_DURATION)
         IN IF num >= CROSSING_DURATION
            THEN [s EXCEPT !.crossing_timer = timer,
                           !.boat = Docked(opposite(s.boat.from)),
                           !.crossing_count =
                               IF s.boat.from = "Right"
                               THEN s.crossing_count + 1
                               ELSE s.crossing_count]
            ELSE [s EXCEPT !.crossing_timer = timer,
                           !.boat = Crossing(s.boat.from, num)]
    ELSE s

\* update_crossing reading the progress off the frame delta alone
update_crossing_progress_from_delta(s, dt) ==
    IF s.boat.tag = "Crossing"
    THEN LET timer == s.crossing_timer + dt
             num == Min(dt, CROSSING_DURATION)
         IN IF num >= CROSSING_DURATION
            THEN [s EXCEPT !.crossing_timer = timer,
                           !.boat = Docked(opposite(s.boat.from)),
                           !.crossing_count = s.crossing_count + 1]
            ELSE [s EXCEPT !.crossing_timer = timer,
                           !.boat = Crossing(s.boat.from, num)]
    ELSE s

update_crossing(s, dt) ==
    IF s.boat.tag = "Crossing"
    THEN LET timer == s.crossing_timer + dt
             \* (timer / CROSSING_DURATION).min(1.0)
             num == Min(timer, CROSSING_DURATION)
         IN IF num >= CROSSING_DURATION
            THEN [s EXCEPT !.crossing_timer = timer,
                           !.boat = Docked(opposite(s.boat.from)),
                           !.crossing_count = s.crossing_count + 1]
            ELSE [s EXCEPT !.crossing_timer = timer,
                           !.boat = Crossing(s.boat.from, num)]
    ELSE s

\* eating_rule_at with the sheep-and-cabbage pair tested first
eating_rule_at_cabbage_first(s, player_bank, bank) ==
    IF player_bank = bank THEN None
    ELSE LET entities_here == entities_on_bank(s, bank)
             has_wolf == "Wolf" \in entities_here
             has_sheep == "Sheep" \in entities_here
             has_cabbage == "Cabbage" \in entities_here
         IN IF has_sheep /\ has_cabbage THEN "SheepAteCabbage"
            ELSE IF has_wolf /\ has_sheep THEN "WolfAteSheep"
            ELSE None

\* eating_rule_at with the wolf and the cabbage a forbidden pair as well
eating_rule_at_wolf_with_cabbage(s, player_bank, bank) ==
    IF player_bank = bank THEN None
    ELSE LET entities_here == entities_on_bank(s, bank)
             has_wolf == "Wolf" \in entities_here
             has_sheep == "Sheep" \in entities_here
             has_cabbage == "Cabbage" \in entities_here
         IN IF has_wolf /\ has_sheep THEN "WolfAteSheep"
            ELSE IF has_sheep /\ has_cabbage THEN "SheepAteCabbage"
            ELSE IF has_wolf /\ has_cabbage THEN "WolfAteSheep"
            ELSE None

\* One iteration of check_eating_rules' loop: the early return for `bank`,
\* or None when the loop goes on
eating_rule_at(s, player_bank, bank) ==
    IF player_bank = bank THEN None
    ELSE LET entities_here == entities_on_bank(s, bank)
             has_wolf == "Wolf" \in entities_here
             has_sheep == "Sheep" \in entities_here
             has_cabbage == "Cabbage" \in entities_here
         IN IF has_wolf /\ has_sheep THEN "WolfAteSheep"
            ELSE IF has_sheep /\ has_cabbage THEN "SheepAteCabbage"
            ELSE None

\* check_eating_rules with a player on the boat attending the bank it leaves
check_eating_rules_boat_attends_origin(s) ==
    LET player_bank == IF s.player.tag = "OnLand" THEN bank_of(s.player.pos)
                       ELSE IF s.boat.tag = "Crossing" THEN s.boat.from
                       ELSE s.boat.bank
        left == eating_rule_at(s, player_bank, "Left")
    IN IF left # None THEN left
       ELSE eating_rule_at(s, player_bank, "Right")

check_eating_rules(s) ==
    LET player_bank == IF s.player.tag = "OnLand" THEN bank_of(s.player.pos)
                       ELSE None
        left == eating_rule_at(s, player_bank, "Left")
    IN IF left # None THEN left
       ELSE eating_rule_at(s, player_bank, "Right")

\* check_win satisfied by every entity that is not on the left bank
check_win_none_on_left(s) ==
    \A e \in Entity :
        ~(s.entities[e].tag = "OnBank" /\ s.entities[e].bank = "Left")

check_win(s) ==
    \A e \in Entity :
        s.entities[e].tag = "OnBank" /\ s.entities[e].bank = "Right"

-----------------------------------------------------------------------------
(* interaction.rs *)

\* [Entity::Sheep, Entity::Wolf, Entity::Cabbage]
priority == <<"Sheep", "Wolf", "Cabbage">>

\* One pass of find_nearby_entity over `priority`, from index i on: the first
\* entity that is not the follower and stands on `bank`, on the player's tile
\* (same_tile) or within is_adjacent of it; None when the pass ends
RECURSIVE find_pass(_, _, _, _, _)
find_pass(s, player_pos, bank, same_tile, i) ==
    IF i > Len(priority) THEN None
    ELSE LET entity == priority[i]
             loc == entity_location(s, entity)
         IN IF /\ s.follower # entity
               /\ loc.tag = "OnBank"
               /\ loc.bank = bank
               /\ IF same_tile THEN loc.pos = player_pos
                  ELSE is_adjacent(player_pos, loc.pos)
            THEN entity
            ELSE find_pass(s, player_pos, bank, same_tile, i + 1)

\* find_nearby_entity with one pass over tiles within distance 1
find_nearby_entity_single_pass(s, player_pos, bank) ==
    find_pass(s, player_pos, bank, FALSE, 1)

find_nearby_entity(s, player_pos, bank) ==
    LET same == find_pass(s, player_pos, bank, TRUE, 1)
    IN IF same # None THEN same
       ELSE find_pass(s, player_pos, bank, FALSE, 1)

\* resolve_on_boat without the test for a docked boat
resolve_on_boat_mid_river(s) ==
    IF s.follower # None /\ s.boat_cargo = None
    THEN LoadOntoBoat(s.follower)
    ELSE IF s.boat_cargo # None /\ s.follower = None
         THEN UnloadFromBoat(s.boat_cargo)
    ELSE UnboardBoat

\* resolve_on_boat letting the player off before the cargo is unloaded
resolve_on_boat_unboard_before_unload(s) ==
    IF s.boat.tag # "Docked" THEN NoAction
    ELSE IF s.follower # None /\ s.boat_cargo = None
         THEN LoadOntoBoat(s.follower)
    ELSE UnboardBoat

resolve_on_boat(s) ==
    IF s.boat.tag # "Docked" THEN NoAction
    ELSE IF s.follower # None /\ s.boat_cargo = None
         THEN LoadOntoBoat(s.follower)
    ELSE IF s.boat_cargo # None /\ s.follower = None
         THEN UnloadFromBoat(s.boat_cargo)
    ELSE UnboardBoat

\* resolve_on_land with the pick-up tried before the drop
resolve_on_land_pickup_first(s, pos) ==
    LET bank == bank_of(pos)
    IN IF bank = None THEN NoAction
       ELSE LET at_dock == is_dock_position(pos, bank) /\ s.boat = Docked(bank)
                entity == find_nearby_entity(s, pos, bank)
            IN IF at_dock
               THEN IF s.follower # None
                    THEN IF s.boat_cargo = None
                         THEN LoadOntoBoat(s.follower)
                         ELSE NoAction
                    ELSE BoardBoat
               ELSE IF entity # None THEN PickUp(entity)
               ELSE IF s.follower # None THEN Drop(s.follower)
               ELSE NoAction

\* resolve_on_land with the follower loaded whether or not the boat has cargo
resolve_on_land_load_on_full_boat(s, pos) ==
    LET bank == bank_of(pos)
    IN IF bank = None THEN NoAction
       ELSE LET at_dock == is_dock_position(pos, bank) /\ s.boat = Docked(bank)
            IN IF at_dock
               THEN IF s.follower # None
                    THEN LoadOntoBoat(s.follower)
                    ELSE BoardBoat
               ELSE IF s.follower # None THEN Drop(s.follower)
               ELSE LET entity == find_nearby_entity(s, pos, bank)
                    IN IF entity # None THEN PickUp(entity) ELSE NoAction

\* resolve_on_land boarding at the dock whether or not an entity follows
resolve_on_land_board_with_follower(s, pos) ==
    LET bank == bank_of(pos)
    IN IF bank = None THEN NoAction
       ELSE LET at_dock == is_dock_position(pos, bank) /\ s.boat = Docked(bank)
            IN IF at_dock THEN BoardBoat
               ELSE IF s.follower # None THEN Drop(s.follower)
               ELSE LET entity == find_nearby_entity(s, pos, bank)
                    IN IF entity # None THEN PickUp(entity) ELSE NoAction

\* resolve_on_land boarding with a follower when the boat is full
resolve_on_land_board_when_boat_full(s, pos) ==
    LET bank == bank_of(pos)
    IN IF bank = None THEN NoAction
       ELSE LET at_dock == is_dock_position(pos, bank) /\ s.boat = Docked(bank)
            IN IF at_dock
               THEN IF s.follower # None /\ s.boat_cargo = None
                    THEN LoadOntoBoat(s.follower)
                    ELSE BoardBoat
               ELSE IF s.follower # None THEN Drop(s.follower)
               ELSE LET entity == find_nearby_entity(s, pos, bank)
                    IN IF entity # None THEN PickUp(entity) ELSE NoAction

\* resolve_on_land loading an entity that lies on the dock tile
resolve_on_land_loads_from_dock_tile(s, pos) ==
    LET bank == bank_of(pos)
    IN IF bank = None THEN NoAction
       ELSE LET at_dock == is_dock_position(pos, bank) /\ s.boat = Docked(bank)
                on_tile == find_pass(s, pos, bank, TRUE, 1)
            IN IF at_dock
               THEN IF s.follower # None
                    THEN IF s.boat_cargo = None
                         THEN LoadOntoBoat(s.follower)
                         ELSE NoAction
                    ELSE IF on_tile # None /\ s.boat_cargo = None
                         THEN LoadOntoBoat(on_tile)
                    ELSE BoardBoat
               ELSE IF s.follower # None THEN Drop(s.follower)
               ELSE LET entity == find_nearby_entity(s, pos, bank)
                    IN IF entity # None THEN PickUp(entity) ELSE NoAction

\* resolve_on_land picking up an entity near the dock before boarding
resolve_on_land_pickup_at_dock(s, pos) ==
    LET bank == bank_of(pos)
    IN IF bank = None THEN NoAction
       ELSE LET at_dock == is_dock_position(pos, bank) /\ s.boat = Docked(bank)
                entity == find_nearby_entity(s, pos, bank)
            IN IF at_dock
               THEN IF s.follower # None
                    THEN IF s.boat_cargo = None
                         THEN LoadOntoBoat(s.follower)
                         ELSE NoAction
                    ELSE IF entity # None THEN PickUp(entity)
                    ELSE BoardBoat
               ELSE IF s.follower # None THEN Drop(s.follower)
               ELSE IF entity # None THEN PickUp(entity) ELSE NoAction

resolve_on_land(s, pos) ==
    LET bank == bank_of(pos)
    IN IF bank = None THEN NoAction
       ELSE LET at_dock == is_dock_position(pos, bank) /\ s.boat = Docked(bank)
            IN IF at_dock
               THEN IF s.follower # None
                    THEN IF s.boat_cargo = None
                         THEN LoadOntoBoat(s.follower)
                         ELSE NoAction
                    ELSE BoardBoat
               ELSE IF s.follower # None THEN Drop(s.follower)
               ELSE LET entity == find_nearby_entity(s, pos, bank)
                    IN IF entity # None THEN PickUp(entity) ELSE NoAction

resolve_interaction(s) ==
    IF s.player.tag = "OnBoat" THEN resolve_on_boat(s)
    ELSE resolve_on_land(s, s.player.pos)

-----------------------------------------------------------------------------
(* main.rs: one iteration of the frame loop, from the polled event and the *)
(* frame delta to the state the renderer reads                              *)

Move(dir) == [tag |-> "Move", dir |-> dir]
Interact == [tag |-> "Interact"]
CrossRiver == [tag |-> "CrossRiver"]
Restart == [tag |-> "Restart"]
NoEvent == [tag |-> "None"]

InputEvent ==
    {Move(dir) : dir \in Direction} \cup {Interact, CrossRiver, Restart, NoEvent}

\* on_event with the forbidden pairs also checked after every interaction
on_event_rules_after_interact(s, event) ==
    CASE event.tag = "Move" -> try_move_player(s, event.dir).st
      [] event.tag = "Interact" ->
           LET action == resolve_interaction(s)
           IN IF action # NoAction
              THEN LET done == execute_action(s, action)
                       reason == check_eating_rules(done)
                   IN IF check_win(done) THEN [done EXCEPT !.phase = Won]
                      ELSE IF reason # None
                           THEN [done EXCEPT !.phase = Lost(reason)]
                      ELSE done
              ELSE s
      [] event.tag = "CrossRiver" ->
           LET r == start_crossing(s)
           IN IF r.ok
              THEN LET reason == check_eating_rules(r.st)
                   IN IF reason # None
                      THEN [r.st EXCEPT !.phase = Lost(reason)]
                      ELSE r.st
              ELSE r.st
      [] event.tag = "Restart" -> reset(s)
      [] event.tag = "None" -> s

\* on_event with the win checked only after a Drop
on_event_win_after_drop_only(s, event) ==
    CASE event.tag = "Move" -> try_move_player(s, event.dir).st
      [] event.tag = "Interact" ->
           LET action == resolve_interaction(s)
           IN IF action # NoAction
              THEN LET done == execute_action(s, action)
                   IN IF action.tag = "Drop" /\ check_win(done)
                      THEN [done EXCEPT !.phase = Won]
                      ELSE done
              ELSE s
      [] event.tag = "CrossRiver" ->
           LET r == start_crossing(s)
           IN IF r.ok
              THEN LET reason == check_eating_rules(r.st)
                   IN IF reason # None
                      THEN [r.st EXCEPT !.phase = Lost(reason)]
                      ELSE r.st
              ELSE r.st
      [] event.tag = "Restart" -> reset(s)
      [] event.tag = "None" -> s

\* The match on the event in the Playing arm, before update_crossing
\* on_event with the win tested before the action is executed
on_event_win_before_action(s, event) ==
    CASE event.tag = "Move" -> try_move_player(s, event.dir).st
      [] event.tag = "Interact" ->
           LET action == resolve_interaction(s)
           IN IF action # NoAction
              THEN LET done == execute_action(s, action)
                   IN IF check_win(s) THEN [done EXCEPT !.phase = Won]
                      ELSE done
              ELSE s
      [] event.tag = "CrossRiver" ->
           LET r == start_crossing(s)
           IN IF r.ok
              THEN LET reason == check_eating_rules(r.st)
                   IN IF reason # None
                      THEN [r.st EXCEPT !.phase = Lost(reason)]
                      ELSE r.st
              ELSE r.st
      [] event.tag = "Restart" -> reset(s)
      [] event.tag = "None" -> s

\* on_event with the forbidden pairs checked whether or not the boat departed
on_event_rules_without_departure(s, event) ==
    CASE event.tag = "Move" -> try_move_player(s, event.dir).st
      [] event.tag = "Interact" ->
           LET action == resolve_interaction(s)
           IN IF action # NoAction
              THEN LET done == execute_action(s, action)
                   IN IF check_win(done) THEN [done EXCEPT !.phase = Won]
                      ELSE done
              ELSE s
      [] event.tag = "CrossRiver" ->
           LET r == start_crossing(s)
               reason == check_eating_rules(r.st)
           IN IF reason # None
              THEN [r.st EXCEPT !.phase = Lost(reason)]
              ELSE r.st
      [] event.tag = "Restart" -> reset(s)
      [] event.tag = "None" -> s

\* on_event with no forbidden-pair check when the boat departs
on_event_departure_unchecked(s, event) ==
    CASE event.tag = "Move" -> try_move_player(s, event.dir).st
      [] event.tag = "Interact" ->
           LET action == resolve_interaction(s)
           IN IF action # NoAction
              THEN LET done == execute_action(s, action)
                   IN IF check_win(done) THEN [done EXCEPT !.phase = Won]
                      ELSE done
              ELSE s
      [] event.tag = "CrossRiver" -> start_crossing(s).st
      [] event.tag = "Restart" -> reset(s)
      [] event.tag = "None" -> s

on_event(s, event) ==
    CASE event.tag = "Move" -> try_move_player(s, event.dir).st
      [] event.tag = "Interact" ->
           LET action == resolve_interaction(s)
           IN IF action # NoAction
              THEN LET done == execute_action(s, action)
                   IN IF check_win(done) THEN [done EXCEPT !.phase = Won]
                      ELSE done
              ELSE s
      [] event.tag = "CrossRiver" ->
           LET r == start_crossing(s)
           IN IF r.ok
              THEN LET reason == check_eating_rules(r.st)
                   IN IF reason # None
                      THEN [r.st EXCEPT !.phase = Lost(reason)]
                      ELSE r.st
              ELSE r.st
      [] event.tag = "Restart" -> reset(s)
      [] event.tag = "None" -> s

\* frame with update_crossing applied in every phase
frame_update_in_every_phase(s, event, dt) ==
    IF s.phase = Playing
    THEN update_crossing(on_event(s, event), dt)
    ELSE IF event = Restart THEN reset(s) ELSE update_crossing(s, dt)

frame(s, event, dt) ==
    IF s.phase = Playing
    THEN update_crossing(on_event(s, event), dt)
    ELSE IF event = Restart THEN reset(s) ELSE s

-----------------------------------------------------------------------------
(* The input driver: the events and frame deltas the frame loop is fed *)

Dt == 0 .. MaxDt

\* The tiles the driver walks the player on: the dock row of either bank, and
\* the column on which the three entities start
InReach(pos) ==
    \/ /\ pos.row = DOCK_ROW
       /\ pos.col >= RIVER_COL_MIN - ColReach
       /\ pos.col <= RIVER_COL_MAX + ColReach
    \/ /\ pos.col = SHEEP_START.col
       /\ pos.row >= DOCK_ROW - RowReach
       /\ pos.row <= DOCK_ROW + RowReach

\* A Move is issued unless it would walk the player out of reach
MoveIssued(dir) ==
    player.tag = "OnLand" /\ is_walkable(step(player.pos, dir))
        => InReach(step(player.pos, dir))

\* Interact is issued for a Drop while the driver has drops left
InteractIssued ==
    phase = Playing /\ resolve_interaction(State).tag = "Drop"
        => drops < MaxDrops

\* CrossRiver is issued while the driver has crossings left
CrossRiverIssued ==
    phase = Playing /\ start_crossing(State).ok
        => crossing_count < MaxCrossings

Becomes(s) ==
    /\ phase' = s.phase
    /\ player' = s.player
    /\ entities' = s.entities
    /\ follower' = s.follower
    /\ boat' = s.boat
    /\ boat_cargo' = s.boat_cargo
    /\ crossing_timer' = s.crossing_timer
    /\ crossing_count' = s.crossing_count

Init ==
    /\ phase = new.phase
    /\ player = new.player
    /\ entities = new.entities
    /\ follower = new.follower
    /\ boat = new.boat
    /\ boat_cargo = new.boat_cargo
    /\ crossing_timer = new.crossing_timer
    /\ crossing_count = new.crossing_count
    /\ drops = 0

MoveFrame(dt) ==
    \E dir \in Direction :
        /\ MoveIssued(dir)
        /\ Becomes(frame(State, Move(dir), dt))
        /\ UNCHANGED drops

InteractFrame(dt) ==
    /\ InteractIssued
    /\ Becomes(frame(State, Interact, dt))
    /\ drops' = IF phase = Playing /\ resolve_interaction(State).tag = "Drop"
                THEN drops + 1 ELSE drops

CrossRiverFrame(dt) ==
    /\ CrossRiverIssued
    /\ Becomes(frame(State, CrossRiver, dt))
    /\ UNCHANGED drops

RestartFrame(dt) ==
    /\ Becomes(frame(State, Restart, dt))
    /\ drops' = 0

NoneFrame(dt) ==
    /\ Becomes(frame(State, NoEvent, dt))
    /\ UNCHANGED drops

MoveStep == \E dt \in Dt : MoveFrame(dt)

InteractStep == \E dt \in Dt : InteractFrame(dt)

CrossRiverStep == \E dt \in Dt : CrossRiverFrame(dt)

RestartStep == \E dt \in Dt : RestartFrame(dt)

NoneStep == \E dt \in Dt : NoneFrame(dt)

Next ==
    \/ MoveStep
    \/ InteractStep
    \/ CrossRiverStep
    \/ RestartStep
    \/ NoneStep

Spec == Init /\ [][Next]_vars

-----------------------------------------------------------------------------
(* A game in which Restart is never pressed and frames with a positive      *)
(* delta keep coming: the frame loop never ends and get_frame_time() is the *)
(* time the previous frame took                                             *)

PositiveFrame ==
    \E dt \in Dt \ {0} :
        \/ MoveFrame(dt)
        \/ InteractFrame(dt)
        \/ CrossRiverFrame(dt)
        \/ NoneFrame(dt)

NextNoRestart ==
    \/ MoveStep
    \/ InteractStep
    \/ CrossRiverStep
    \/ NoneStep

LiveSpec == Init /\ [][NextNoRestart]_vars /\ WF_vars(PositiveFrame)

\* One game, from the initial state on, with Restart never pressed
SpecOneGame == Init /\ [][NextNoRestart]_vars

-----------------------------------------------------------------------------
(* check_eating_rules on arbitrary arrangements: every entity on either     *)
(* bank, following or on the boat, any follower, the player on the boat or *)
(* on either bank; the frames are departures                                *)

RuleLocations ==
    {OnBank(bank, dock_for(bank)) : bank \in Bank}
        \cup {FollowingPlayer, EntityOnBoat}

RulePlayers ==
    {PlayerOnBoat, OnLand(LEFT_DOCK), OnLand(RIGHT_DOCK)}

InitRules ==
    /\ phase = Playing
    /\ player \in RulePlayers
    /\ entities \in [Entity -> RuleLocations]
    /\ follower \in Entity \cup {None}
    /\ boat \in {Docked(bank) : bank \in Bank}
    /\ boat_cargo = None
    /\ crossing_timer = 0
    /\ crossing_count = 0
    /\ drops = 0

NextRules ==
    \/ CrossRiverStep
    \/ NoneStep

SpecRules == InitRules /\ [][NextRules]_vars

-----------------------------------------------------------------------------
(* try_move_player on the whole grid: the player stands on any walkable    *)
(* tile of either bank, alone or with the sheep picked up on that tile, or *)
(* sits on the docked boat, and walks in any direction                     *)

Walkable ==
    {pos \in {GridPos(c, r) : c \in 0 .. GRID_COLS - 1, r \in 0 .. GRID_ROWS - 1} :
        is_walkable(pos)}

InitGrid ==
    /\ phase = Playing
    /\ player \in {OnLand(pos) : pos \in Walkable} \cup {PlayerOnBoat}
    /\ follower \in {None, "Sheep"}
    /\ player = PlayerOnBoat => follower = None
    /\ LET bank == IF player = PlayerOnBoat THEN "Left" ELSE bank_of(player.pos)
       IN /\ boat = Docked(bank)
          /\ entities =
                 [new.entities EXCEPT !["Sheep"] =
                     IF follower = "Sheep" THEN FollowingPlayer
                     ELSE IF bank = "Right" THEN OnBank("Right", RIGHT_DOCK)
                     ELSE OnBank("Left", SHEEP_START)]
          /\ crossing_timer = IF bank = "Right" THEN CROSSING_DURATION ELSE 0
          /\ crossing_count = IF bank = "Right" THEN 1 ELSE 0
    /\ boat_cargo = None
    /\ drops = 0

MoveAnywhere ==
    \E dir \in Direction, dt \in Dt :
        /\ Becomes(frame(State, Move(dir), dt))
        /\ UNCHANGED drops

NextGrid == MoveAnywhere

SpecGrid == InitGrid /\ [][NextGrid]_vars

-----------------------------------------------------------------------------
(* Follower and cargo bookkeeping *)

\* C1 as stated: if follower = Some(e) then the stored location of e is
\* FollowingPlayer, in every reachable state, also after a successful
\* try_move_player made while an entity is following.
C1_FollowerIsTaggedFollowing ==
    follower # None => entities[follower] = FollowingPlayer

\* C1 amended: if follower = Some(e) then the stored location of e is
\* FollowingPlayer (no successful move since the pick-up) or, after a
\* successful try_move_player, OnBank on the player's bank at a tile next
\* to the player's, the tile the player left; it is never OnBoat.
C1_FollowerIsTaggedOrTrails ==
    follower # None =>
        \/ entities[follower] = FollowingPlayer
        \/ /\ player.tag = "OnLand"
           /\ entities[follower].tag = "OnBank"
           /\ entities[follower].bank = bank_of(player.pos)
           /\ entities[follower].pos # player.pos
           /\ is_adjacent(player.pos, entities[follower].pos)

\* A follower that has been walked: its stored location is a bank tile
C1_FollowerTrails ==
    /\ follower # None
    /\ entities[follower].tag = "OnBank"

\* C2: at most one entity has location FollowingPlayer, an entity located
\* FollowingPlayer is the one named by follower, and resolve_interaction
\* yields PickUp only while follower is None.
C2_SingleFollower ==
    /\ Cardinality({e \in Entity : entities[e] = FollowingPlayer}) <= 1
    /\ \A e \in Entity : entities[e] = FollowingPlayer => follower = e
    /\ resolve_interaction(State).tag = "PickUp" => follower = None

\* An entity has just been picked up while another stands within reach
C2_PickedUpNextToAnother ==
    /\ follower # None
    /\ entities[follower] = FollowingPlayer
    /\ find_nearby_entity(State, player.pos, bank_of(player.pos)) # None

\* C3: boat_cargo = Some(e) implies e is located OnBoat, no entity other
\* than the cargo is located OnBoat, and resolve_interaction yields
\* LoadOntoBoat only while boat_cargo is None.
C3_SingleCargo ==
    /\ boat_cargo # None => entities[boat_cargo] = EntityOnBoat
    /\ \A e \in Entity : entities[e] = EntityOnBoat => boat_cargo = e
    /\ resolve_interaction(State).tag = "LoadOntoBoat" => boat_cargo = None

\* The player stands at the dock with a follower while the docked boat is
\* already loaded
C3_FollowerAtLoadedBoat ==
    /\ boat_cargo # None
    /\ follower # None
    /\ player.tag = "OnLand"
    /\ boat.tag = "Docked"
    /\ is_dock_position(player.pos, boat.bank)

-----------------------------------------------------------------------------
(* Phases *)

\* C4: once phase is Won or Lost, a frame with event Move, Interact,
\* CrossRiver or None, with any time delta, leaves the whole game state
\* unchanged; only Restart leaves a terminal phase.
C4_TerminalPhaseFrozen ==
    phase # Playing =>
        \A event \in InputEvent \ {Restart}, dt \in Dt :
            frame(State, event, dt) = State

\* The game was lost at a departure and the boat stands mid-river
C4_LostMidRiver ==
    /\ phase.tag = "Lost"
    /\ boat.tag = "Crossing"

\* C5: a frame takes phase from Playing to Lost only if its event is
\* CrossRiver and start_crossing succeeds (player OnBoat, boat Docked), and
\* the reason is check_eating_rules on the entity locations at departure;
\* Move, Interact, None and a rejected CrossRiver never set Lost, whether
\* or not a forbidden pair stands unattended or a crossing is under way.
C5_LostOnlyAtDeparture ==
    phase = Playing =>
        \A event \in InputEvent, dt \in Dt :
            LET after == frame(State, event, dt)
            IN after.phase.tag = "Lost" =>
                   /\ event = CrossRiver
                   /\ player = PlayerOnBoat
                   /\ boat.tag = "Docked"
                   /\ start_crossing(State).ok
                   /\ after.phase.reason = check_eating_rules(State)
                   /\ after.entities = entities

\* The player left Sheep and Cabbage behind and the departure lost the game
C5_LostAtDeparture ==
    /\ phase = Lost("SheepAteCabbage")
    /\ player = PlayerOnBoat
    /\ crossing_count = 0

AllOnRightBank ==
    \A e \in Entity :
        entities[e].tag = "OnBank" /\ entities[e].bank = "Right"

\* C6: in every state a frame leaves, phase = Won iff check_win() holds; no
\* reachable state has phase Playing or Lost while all three entities are
\* located OnBank(Right, _).
C6_WonIffAllOnRight ==
    /\ phase = Won <=> check_win(State)
    /\ phase # Won => ~AllOnRightBank

\* The game is won
C6_GameWon == phase = Won

\* C7: check_win() is true iff all three entities are located
\* OnBank(Right, _); it is false whenever an entity is the current follower,
\* is the boat cargo, or is on the left bank.
C7_CheckWin ==
    /\ check_win(State) <=> AllOnRightBank
    /\ follower # None => ~check_win(State)
    /\ boat_cargo # None => ~check_win(State)
    /\ (\E e \in Entity : entities[e].tag = "OnBank" /\ entities[e].bank = "Left")
           => ~check_win(State)

\* The follower trails the player on the right bank, where another entity
\* already stands
C7_FollowerWalkedOnRightBank ==
    /\ follower # None
    /\ entities[follower].tag = "OnBank"
    /\ entities[follower].bank = "Right"
    /\ \E e \in Entity \ {follower} :
           entities[e].tag = "OnBank" /\ entities[e].bank = "Right"

-----------------------------------------------------------------------------
(* Forbidden pairs *)

\* The bank the player stands on, None on the boat
PlayerBank == IF player.tag = "OnLand" THEN bank_of(player.pos) ELSE None

\* Both entities stand on `bank`, neither of them following the player
BothOnBank(bank, e1, e2) ==
    \A e \in {e1, e2} :
        /\ follower # e
        /\ entities[e].tag = "OnBank"
        /\ entities[e].bank = bank

\* C8: for every arrangement of the entities and of the player,
\* check_eating_rules() is WolfAteSheep if some bank other than the player's
\* holds Wolf and Sheep (the follower left out), with or without Cabbage;
\* otherwise SheepAteCabbage if such a bank holds Sheep and Cabbage; otherwise
\* none. Wolf with Cabbage and the player's own bank are never a violation.
C8_EatingRules ==
    check_eating_rules(State) =
        IF \E bank \in Bank :
               PlayerBank # bank /\ BothOnBank(bank, "Wolf", "Sheep")
        THEN "WolfAteSheep"
        ELSE IF \E bank \in Bank :
                    PlayerBank # bank /\ BothOnBank(bank, "Sheep", "Cabbage")
             THEN "SheepAteCabbage"
             ELSE None

\* A departure from a bank that holds all three entities: the wolf ate the
\* sheep
C8_LeftAllThreeBehind ==
    /\ phase = Lost("WolfAteSheep")
    /\ \E bank \in Bank :
           BothOnBank(bank, "Wolf", "Sheep") /\ BothOnBank(bank, "Sheep", "Cabbage")

-----------------------------------------------------------------------------
(* Crossings *)

\* C9: in a frame other than a Restart, crossing_count stays the same or
\* increases by exactly 1, and it increases exactly in the frames in which
\* update_crossing takes the boat from Crossing to Docked; handling the event
\* never changes it, and it never changes while the boat stays Docked or
\* stays Crossing.
C9_CountsCompletedCrossings ==
    \A event \in InputEvent \ {Restart}, dt \in Dt :
        LET handled == IF phase = Playing THEN on_event(State, event) ELSE State
            after == frame(State, event, dt)
        IN /\ handled.crossing_count = crossing_count
           /\ after.crossing_count \in {crossing_count, crossing_count + 1}
           /\ after.crossing_count = crossing_count + 1
                  <=> handled.boat.tag = "Crossing" /\ after.boat.tag = "Docked"

\* The first crossing has completed
C9_FirstCrossingCounted ==
    /\ crossing_count = 1
    /\ boat = Docked("Right")

DeltaRuns == UNION {[1 .. n -> Dt] : n \in 0 .. MaxUpdates}

\* The sum of the first n deltas of a run
RECURSIVE Total(_, _)
Total(deltas, n) ==
    IF n = 0 THEN 0 ELSE Total(deltas, n - 1) + deltas[n]

\* update_crossing called once per frame with the first n deltas of a run
RECURSIVE updates(_, _, _)
updates(s, deltas, n) ==
    IF n = 0 THEN s
    ELSE update_crossing(updates(s, deltas, n - 1), deltas[n])

\* C11: after a successful start_crossing from Docked(b), update_crossing
\* applied with deltas whose running total is below 2 keeps the boat Crossing
\* from b with progress = total / 2 and crossing_count unchanged; the first
\* update that brings the total to 2 or more makes the boat
\* Docked(opposite(b)) with crossing_count one higher, however the total is
\* split into deltas.
C11_CrossingBySplitDeltas ==
    start_crossing(State).ok =>
        \A deltas \in DeltaRuns :
            LET n == Len(deltas)
                total == Total(deltas, n)
                after == updates(start_crossing(State).st, deltas, n)
            IN /\ total < 2 =>
                      /\ after.boat.tag = "Crossing"
                      /\ after.boat.from = boat.bank
                      /\ after.boat.progress.den > 0
                      /\ after.boat.progress.num * 2
                             = total * after.boat.progress.den
                      /\ after.crossing_count = crossing_count
               /\ (n > 0 /\ Total(deltas, n - 1) < 2 /\ total >= 2) =>
                      /\ after.boat = Docked(opposite(boat.bank))
                      /\ after.crossing_count = crossing_count + 1

\* Half of the first crossing is done
C11_HalfWayOnFirstCrossing ==
    /\ boat.tag = "Crossing"
    /\ boat.from = "Left"
    /\ boat.progress.num = 1
    /\ crossing_count = 0

-----------------------------------------------------------------------------
(* Moves *)

\* C12: try_move_player returns failure and leaves the entire state
\* unchanged when the player is OnBoat, when the stepped position is outside
\* the 12x8 grid, or when it lies in river columns 4..7; a frame with such a
\* Move leaves the state unchanged too while the boat is docked.
C12_FailedMoveChangesNothing ==
    \A dir \in Direction :
        LET moved == try_move_player(State, dir)
            blocked ==
                IF player.tag = "OnLand"
                THEN LET target == step(player.pos, dir)
                     IN \/ target.col < 0
                        \/ target.col >= 12
                        \/ target.row < 0
                        \/ target.row >= 8
                        \/ target.col \in 4 .. 7
                ELSE TRUE
        IN /\ blocked => ~moved.ok
           /\ ~moved.ok => moved.st = State
           /\ (~moved.ok /\ boat.tag = "Docked") =>
                  \A dt \in Dt : frame(State, Move(dir), dt) = State

\* The player walked the follower into the far corner of the right bank
C12_FollowerLedIntoCorner ==
    /\ player = OnLand(GridPos(GRID_COLS - 1, GRID_ROWS - 1))
    /\ follower # None
    /\ entities[follower].tag = "OnBank"

\* C13: a CrossRiver event while the player is on land, or while the boat is
\* already Crossing, is rejected: start_crossing returns failure and changes
\* nothing (boat state and progress, timer, count, phase, player, entity
\* locations), the event handling changes nothing either, so that no
\* forbidden-pair check sets Lost, and the frame does no more than the
\* update_crossing of a frame without event.
C13_RejectedCrossRiver ==
    (player.tag = "OnLand" \/ boat.tag = "Crossing") =>
        /\ ~start_crossing(State).ok
        /\ start_crossing(State).st = State
        /\ on_event(State, CrossRiver) = State
        /\ \A dt \in Dt :
               /\ frame(State, CrossRiver, dt) = frame(State, NoEvent, dt)
               /\ frame(State, CrossRiver, dt).phase = phase

\* The player stands ashore while a forbidden pair is unattended and the game
\* goes on
C13_AshoreWithUnattendedPair ==
    /\ phase = Playing
    /\ player.tag = "OnLand"
    /\ check_eating_rules(State) # None

\* C14: after a successful try_move_player from position p with follower e,
\* the location of e is OnBank(bank_of(p), p), the tile the player just
\* left; the bank of the new position, which the code writes, equals the
\* bank of p, because no successful step changes the player's bank.
C14_FollowerTakesTheTileLeft ==
    \A dir \in Direction :
        LET moved == try_move_player(State, dir)
        IN moved.ok =>
               /\ bank_of(player.pos) \in Bank
               /\ bank_of(moved.st.player.pos) = bank_of(player.pos)
               /\ moved.st.player.pos = step(player.pos, dir)
               /\ follower # None =>
                      moved.st.entities[follower]
                          = OnBank(bank_of(player.pos), player.pos)

\* The follower was led along the river's edge on the right bank
C14_FollowerLedAlongTheRiver ==
    /\ follower = "Sheep"
    /\ player = OnLand(GridPos(RIGHT_BANK_COL_MIN, 2))
    /\ entities["Sheep"] = OnBank("Right", GridPos(RIGHT_BANK_COL_MIN, 3))

-----------------------------------------------------------------------------
(* Restart *)

\* C15: a Restart event issued in any reachable state, in any phase and with
\* the boat docked or crossing, produces exactly the initial state: phase
\* Playing, player OnLand((2,4)), Wolf, Sheep and Cabbage OnBank(Left) at
\* (1,2), (1,4) and (1,6), no follower, boat Docked(Left), no cargo, timer 0
\* and crossing_count 0.
C15_RestartGivesInitialState ==
    \A dt \in Dt :
        frame(State, Restart, dt) =
            [phase |-> [tag |-> "Playing"],
             player |-> [tag |-> "OnLand", pos |-> [col |-> 2, row |-> 4]],
             entities |->
                 [e \in Entity |->
                     [tag |-> "OnBank", bank |-> "Left",
                      pos |-> [col |-> 1,
                               row |-> CASE e = "Wolf" -> 2
                                         [] e = "Sheep" -> 4
                                         [] e = "Cabbage" -> 6]]],
             follower |-> "None",
             boat |-> [tag |-> "Docked", bank |-> "Left"],
             boat_cargo |-> "None",
             crossing_timer |-> 0,
             crossing_count |-> 0]

\* A won game, ready to be restarted after its crossings
C15_WonAfterCrossings ==
    /\ phase = Won
    /\ boat = Docked("Right")
    /\ crossing_count > 1
    /\ crossing_timer > 0

-----------------------------------------------------------------------------
(* Progress of a crossing *)

\* C16: within one crossing the boat's progress never decreases from one
\* frame to the next and stays within [0, 1]; each successful start_crossing
\* sets progress and the elapsed timer back to 0, whatever the previous
\* crossing left in them.
C16_ProgressWithinCrossing ==
    /\ boat.tag = "Crossing" =>
           /\ boat.progress.den > 0
           /\ 0 <= boat.progress.num
           /\ boat.progress.num <= boat.progress.den
    /\ \A event \in InputEvent \ {Restart}, dt \in Dt :
           LET after == frame(State, event, dt)
           IN (boat.tag = "Crossing" /\ after.boat.tag = "Crossing") =>
                  /\ after.boat.from = boat.from
                  /\ after.boat.progress.num * boat.progress.den
                         >= boat.progress.num * after.boat.progress.den
    /\ start_crossing(State).ok =>
           /\ start_crossing(State).st.boat.tag = "Crossing"
           /\ start_crossing(State).st.boat.progress.num = 0
           /\ start_crossing(State).st.crossing_timer = 0

\* The boat has just left for its second crossing
C16_SecondCrossingStarted ==
    /\ boat.tag = "Crossing"
    /\ boat.from = "Right"
    /\ boat.progress.num = 0
    /\ crossing_timer = 0
    /\ crossing_count = 1

-----------------------------------------------------------------------------
(* Scenarios *)

\* C17: from the initial state, Move Left brings the player to (1,4), where
\* Interact resolves to PickUp(Sheep); Move Right twice brings the player to
\* the dock (3,4), where Interact resolves to LoadOntoBoat(Sheep) and
\* Interact again to BoardBoat; CrossRiver makes the boat Crossing(Left, 0)
\* and leaves phase Playing, Wolf and Cabbage remaining on the left bank;
\* after 2 units of elapsed time the boat is Docked(Right) and
\* crossing_count is 1.
C17_FerryTheSheep ==
    State = new =>
        \A dt \in Dt :
            LET at_sheep == frame(State, Move("Left"), dt)
                picked == frame(at_sheep, Interact, dt)
                walking == frame(picked, Move("Right"), dt)
                at_dock == frame(walking, Move("Right"), dt)
                loaded == frame(at_dock, Interact, dt)
                boarded == frame(loaded, Interact, dt)
                departed == on_event(boarded, CrossRiver)
            IN /\ at_sheep.player = OnLand(GridPos(1, 4))
               /\ resolve_interaction(at_sheep) = PickUp("Sheep")
               /\ picked.follower = "Sheep"
               /\ at_dock.player = OnLand(GridPos(3, 4))
               /\ resolve_interaction(at_dock) = LoadOntoBoat("Sheep")
               /\ loaded.boat_cargo = "Sheep"
               /\ loaded.follower = None
               /\ resolve_interaction(loaded) = BoardBoat
               /\ boarded.player = PlayerOnBoat
               /\ departed.boat.tag = "Crossing"
               /\ departed.boat.from = "Left"
               /\ departed.boat.progress.num = 0
               /\ departed.phase = Playing
               /\ \A e \in {"Wolf", "Cabbage"} :
                      /\ departed.entities[e].tag = "OnBank"
                      /\ departed.entities[e].bank = "Left"
               /\ \A deltas \in DeltaRuns :
                      Total(deltas, Len(deltas)) = 2 =>
                          LET arrived == updates(departed, deltas, Len(deltas))
                          IN /\ arrived.boat = Docked("Right")
                             /\ arrived.crossing_count = 1
                             /\ arrived.phase = Playing

\* The sheep has been ferried to the right dock and is still aboard
C17_SheepFerried ==
    /\ phase = Playing
    /\ player = PlayerOnBoat
    /\ boat = Docked("Right")
    /\ boat_cargo = "Sheep"
    /\ entities["Sheep"] = EntityOnBoat
    /\ entities["Wolf"] = OnBank("Left", WOLF_START)
    /\ entities["Cabbage"] = OnBank("Left", CABBAGE_START)
    /\ crossing_count = 1

-----------------------------------------------------------------------------
(* Interaction on land *)

\* The player is ashore, on the dock tile of the bank the boat is docked at
AtDockWithBoat ==
    /\ player.tag = "OnLand"
    /\ \E bank \in Bank :
           /\ player.pos = (IF bank = "Left" THEN GridPos(3, 4) ELSE GridPos(8, 4))
           /\ boat = Docked(bank)

\* C19: with the player on land at the dock of bank b and the boat
\* Docked(b), resolve_interaction yields LoadOntoBoat(follower) if a follower
\* exists and the boat has no cargo, no action if a follower exists and the
\* boat has cargo, and BoardBoat if there is no follower; it never yields
\* Drop or PickUp there, also with an entity on the dock tile.
C19_InteractionAtDock ==
    AtDockWithBoat =>
        LET action == resolve_interaction(State)
        IN /\ (follower # None /\ boat_cargo = None) =>
                  action = LoadOntoBoat(follower)
           /\ (follower # None /\ boat_cargo # None) => action = NoAction
           /\ follower = None => action = BoardBoat
           /\ action.tag \notin {"Drop", "PickUp"}

\* The player stands on the right dock next to the boat, carrying nothing,
\* with an entity on the dock tile
C19_AtDockOnAnEntity ==
    /\ AtDockWithBoat
    /\ follower = None
    /\ \E e \in Entity : entities[e] = OnBank("Right", player.pos)

\* The entities located OnBank on the player's bank, at Manhattan distance d
\* of the player
EntitiesAtDistance(d) ==
    {e \in Entity :
        /\ entities[e].tag = "OnBank"
        /\ entities[e].bank = bank_of(player.pos)
        /\ Abs(entities[e].pos.col - player.pos.col)
               + Abs(entities[e].pos.row - player.pos.row) = d}

\* Sheep before Wolf before Cabbage
Preferred(candidates) ==
    IF "Sheep" \in candidates THEN "Sheep"
    ELSE IF "Wolf" \in candidates THEN "Wolf"
    ELSE "Cabbage"

\* C20: with the player on land away from a dock that has the boat,
\* resolve_interaction yields Drop(follower) if a follower exists; otherwise
\* PickUp of an entity located OnBank on the player's bank, any entity on the
\* player's own tile being preferred to every entity at Manhattan distance 1
\* and, within each of the two passes, Sheep to Wolf to Cabbage; it yields
\* nothing if no such entity is within distance 1.  Entities on the boat or
\* on the other bank are never picked up.
C20_InteractionAwayFromDock ==
    (player.tag = "OnLand" /\ ~AtDockWithBoat) =>
        LET action == resolve_interaction(State)
        IN /\ follower # None => action = Drop(follower)
           /\ follower = None =>
                  action =
                      IF EntitiesAtDistance(0) # {}
                      THEN PickUp(Preferred(EntitiesAtDistance(0)))
                      ELSE IF EntitiesAtDistance(1) # {}
                      THEN PickUp(Preferred(EntitiesAtDistance(1)))
                      ELSE NoAction
           /\ action.tag = "PickUp" =>
                  /\ entities[action.entity].tag = "OnBank"
                  /\ entities[action.entity].bank = bank_of(player.pos)

\* The player stands on the cabbage's tile, next to the wolf, carrying nothing
C20_OnCabbageNextToWolf ==
    /\ player.tag = "OnLand"
    /\ ~AtDockWithBoat
    /\ follower = None
    /\ "Cabbage" \in EntitiesAtDistance(0)
    /\ "Wolf" \in EntitiesAtDistance(1)

-----------------------------------------------------------------------------
(* Interaction on the boat *)

\* C21: with the player on a Docked boat, resolve_interaction always yields
\* an action: LoadOntoBoat(follower) if a follower exists and the cargo is
\* empty; else UnloadFromBoat(cargo) if cargo exists and there is no
\* follower; else UnboardBoat.  So an Interact takes the player off a docked
\* boat only when the boat carries no cargo.
C21_InteractionOnDockedBoat ==
    (player = PlayerOnBoat /\ boat.tag = "Docked") =>
        LET action == resolve_interaction(State)
        IN /\ action # NoAction
           /\ action =
                  IF follower # None /\ boat_cargo = None
                  THEN LoadOntoBoat(follower)
                  ELSE IF boat_cargo # None /\ follower = None
                  THEN UnloadFromBoat(boat_cargo)
                  ELSE UnboardBoat
           /\ on_event(State, Interact).player # PlayerOnBoat =>
                  boat_cargo = None

\* The player sits on the boat docked at the left bank, next to its cargo
C21_AboardWithCargoAtLeftDock ==
    /\ phase = Playing
    /\ player = PlayerOnBoat
    /\ boat = Docked("Left")
    /\ boat_cargo # None

-----------------------------------------------------------------------------
(* Effects of the actions *)

\* C22: executing LoadOntoBoat(e) leaves follower = None, boat_cargo =
\* Some(e) and e located OnBoat; executing UnloadFromBoat(e) while the boat
\* is Docked(b) leaves boat_cargo = None and e located OnBank(b, dock_for(b));
\* neither action changes the player's location, the boat state, or any
\* other entity's location.
C22_LoadAndUnload ==
    \A e \in Entity :
        LET loaded == execute_action(State, LoadOntoBoat(e))
            unloaded == execute_action(State, UnloadFromBoat(e))
        IN /\ loaded.follower = None
           /\ loaded.boat_cargo = e
           /\ loaded.entities[e] = EntityOnBoat
           /\ loaded.player = player
           /\ loaded.boat = boat
           /\ \A other \in Entity \ {e} :
                  loaded.entities[other] = entities[other]
           /\ boat.tag = "Docked" =>
                  /\ unloaded.boat_cargo = None
                  /\ unloaded.entities[e] = OnBank(boat.bank, dock_for(boat.bank))
                  /\ unloaded.player = player
                  /\ unloaded.boat = boat
                  /\ \A other \in Entity \ {e} :
                         unloaded.entities[other] = entities[other]

\* The cargo has been unloaded onto the right dock
C22_UnloadedAtRightDock ==
    /\ player = PlayerOnBoat
    /\ boat = Docked("Right")
    /\ boat_cargo = None
    /\ \E e \in Entity : entities[e] = OnBank("Right", RIGHT_DOCK)

\* C23: for a player on land at position p on bank b and any entity e,
\* executing PickUp(e) and then Drop(e) leaves e located OnBank(b, p) and
\* follower = None, the first time and every time after, whatever tile e
\* stood on before; the other entities, the player and the boat are
\* unchanged.
C23_PickUpThenDrop ==
    player.tag = "OnLand" =>
        \A e \in Entity :
            LET once == execute_action(execute_action(State, PickUp(e)), Drop(e))
                twice == execute_action(execute_action(once, PickUp(e)), Drop(e))
                here == OnBank(bank_of(player.pos), player.pos)
            IN /\ bank_of(player.pos) \in Bank
               /\ once.entities[e] = here
               /\ once.follower = None
               /\ once.player = player
               /\ once.boat = boat
               /\ \A other \in Entity \ {e} :
                      once.entities[other] = entities[other]
               /\ twice.entities[e] = here
               /\ twice.follower = None
               /\ twice = once

\* The sheep was picked up from the next tile and dropped where the player
\* stands
C23_SheepDroppedAtPlayerStart ==
    /\ player = OnLand(PLAYER_START)
    /\ follower = None
    /\ entities["Sheep"] = OnBank("Left", PLAYER_START)

-----------------------------------------------------------------------------
(* Mid-river *)

\* C24: while the boat is Crossing, resolve_interaction yields no action and
\* every Move and CrossRiver is rejected, so across any step other than
\* Restart taken while the boat is Crossing the player location, all entity
\* locations, follower and boat cargo are unchanged; only the timer, the
\* progress, the boat's docking and crossing_count can change.
C24_NothingMovesMidRiver ==
    /\ [](boat.tag = "Crossing" =>
              /\ resolve_interaction(State) = NoAction
              /\ \A dir \in Direction : ~try_move_player(State, dir).ok
              /\ ~start_crossing(State).ok)
    /\ [][boat.tag = "Crossing" =>
              /\ player' = player
              /\ entities' = entities
              /\ follower' = follower
              /\ boat_cargo' = boat_cargo
              /\ phase' = phase]_vars

\* The wolf is being ferried
C24_WolfMidRiver ==
    /\ phase = Playing
    /\ boat.tag = "Crossing"
    /\ boat_cargo = "Wolf"

-----------------------------------------------------------------------------
(* From follower to cargo *)

\* C25: boat_cargo changes from None to Some(e) only in a step that executes
\* LoadOntoBoat(e), e being the follower immediately before that step;
\* boarding, unboarding, moves and crossings never turn a follower into
\* cargo, and no reachable state has the same entity as follower and as boat
\* cargo.
C25_CargoOnlyByLoading ==
    /\ [](follower # None => follower # boat_cargo)
    /\ [][(boat_cargo = None /\ boat_cargo' # None) =>
              /\ phase = Playing
              /\ follower = boat_cargo'
              /\ resolve_interaction(State) = LoadOntoBoat(boat_cargo')
              /\ \E dt \in Dt : State' = frame(State, Interact, dt)]_vars

\* The sheep is aboard and the wolf follows the player
C25_SheepAboardWolfFollowing ==
    /\ boat_cargo = "Sheep"
    /\ follower = "Wolf"

-----------------------------------------------------------------------------
(* Positions *)

-----------------------------------------------------------------------------
(* Nobody follows the player aboard *)

\* C27: in every reachable state, whenever the player is OnBoat the follower
\* is None: BoardBoat is never resolved while an entity follows, so the
\* on-boat LoadOntoBoat(follower) rule and the follower branch of
\* UnboardBoat are never taken, and the follower is None when
\* check_eating_rules runs at a departure.
C27_NoFollowerAboard ==
    /\ player = PlayerOnBoat => follower = None
    /\ resolve_interaction(State) = BoardBoat => follower = None
    /\ player = PlayerOnBoat => resolve_interaction(State).tag # "LoadOntoBoat"
    /\ start_crossing(State).ok => start_crossing(State).st.follower = None

\* The boat left the right bank and the game goes on
C27_DepartedFromRightBank ==
    /\ phase = Playing
    /\ player = PlayerOnBoat
    /\ boat.tag = "Crossing"
    /\ boat.from = "Right"

\* C28: in every reachable state, each entity location of the form
\* OnBank{bank, pos} has pos walkable (inside the grid, not in the river)
\* and bank_of(pos) = bank.
C28_EntitiesStandOnTheirBank ==
    \A e \in Entity :
        entities[e].tag = "OnBank" =>
            /\ entities[e].pos.col \in 0 .. 11
            /\ entities[e].pos.row \in 0 .. 7
            /\ entities[e].pos.col \notin 4 .. 7
            /\ is_walkable(entities[e].pos)
            /\ entities[e].bank \in Bank
            /\ bank_of(entities[e].pos) = entities[e].bank

\* An entity stands inland on the right bank, away from the dock
C28_EntityInlandOnRightBank ==
    \E e \in Entity :
        /\ entities[e].tag = "OnBank"
        /\ entities[e].bank = "Right"
        /\ entities[e].pos.col > RIGHT_BANK_COL_MIN

-----------------------------------------------------------------------------
(* Winning *)

\* C29: phase becomes Won only in a step that executes UnloadFromBoat with
\* the boat Docked(Right); so in every Won state the player is OnBoat, the
\* boat is Docked(Right), the boat cargo is None and the follower is None.
C29_WonByUnloadingAtRightDock ==
    /\ [](phase = Won =>
              /\ player = PlayerOnBoat
              /\ boat = Docked("Right")
              /\ boat_cargo = None
              /\ follower = None)
    /\ [][(phase # Won /\ phase' = Won) =>
              /\ phase = Playing
              /\ boat = Docked("Right")
              /\ resolve_interaction(State).tag = "UnloadFromBoat"
              /\ \E dt \in Dt : State' = frame(State, Interact, dt)]_vars

\* The game is won with the last cargo on the right dock
C29_WonWithLastCargoOnDock ==
    /\ phase = Won
    /\ player = PlayerOnBoat
    /\ \E e \in Entity : entities[e] = OnBank("Right", RIGHT_DOCK)

-----------------------------------------------------------------------------
(* The boat's side *)

\* C30: in every reachable state the boat's side and crossing_count agree in
\* parity: boat Docked(Left) or Crossing from Left implies crossing_count is
\* even, boat Docked(Right) or Crossing from Right implies crossing_count is
\* odd.
C30_BoatSideAndCountParity ==
    LET side == IF boat.tag = "Docked" THEN boat.bank ELSE boat.from
    IN /\ side = "Left" => crossing_count % 2 = 0
       /\ side = "Right" => crossing_count % 2 = 1

\* The boat is back at the left bank after a round trip
C30_BackAtLeftBank ==
    /\ boat = Docked("Left")
    /\ crossing_count = 2


-----------------------------------------------------------------------------
\* A run of the main loop, one frame per entry of `script`, each entry an
\* input event and the time elapsed in that frame: `states` holds the states
\* met so far, and the run returns all of them, the starting state first

RECURSIVE play(_, _)
play(states, script) ==
    LET n == Len(states)
    IN IF n > Len(script) THEN states
       ELSE play(Append(states, frame(states[n], script[n].event,
                                      script[n].dt)), script)

Press(event) == [event |-> event, dt |-> 0]

Wait(dt) == [event |-> NoEvent, dt |-> dt]

\* Load the follower at the dock, board, depart and wait out the crossing
Ferry ==
    << Press(Interact), Press(Interact), Press(CrossRiver),
       Wait(CROSSING_DURATION) >>

\* Depart with the player aboard and wait out the crossing
Sail == << Press(CrossRiver), Wait(CROSSING_DURATION) >>

\* The seven crossings: sheep over, back empty, wolf over, sheep back,
\* cabbage over, back empty, sheep over
Solution ==
    << Press(Interact), Press(Move("Right")) >> \o Ferry
    \o << Press(Interact) >> \o Sail
    \o << Press(Interact), Press(Move("Left")), Press(Move("Left")),
          Press(Move("Up")), Press(Interact), Press(Move("Down")),
          Press(Move("Right")), Press(Move("Right")) >> \o Ferry
    \o << Press(Interact), Press(Interact), Press(Move("Right")),
          Press(Interact), Press(Move("Left")) >> \o Ferry
    \o << Press(Interact), Press(Interact), Press(Move("Left")),
          Press(Move("Left")), Press(Move("Down")), Press(Interact),
          Press(Move("Up")), Press(Move("Right")),
          Press(Move("Right")) >> \o Ferry
    \o << Press(Interact) >> \o Sail
    \o << Press(Interact), Press(Move("Left")), Press(Interact),
          Press(Move("Right")) >> \o Ferry
    \o << Press(Interact) >>

-----------------------------------------------------------------------------
\* C31: the puzzle is solvable through the engine's own events: from the
\* initial state the frames of Solution, which are Move, Interact and
\* CrossRiver events and time steps only, end in phase Won, and every state
\* before the last one is in phase Playing, so the run never passes through
\* Lost.
C31_SolvableWithoutLosing ==
    State = new =>
        LET states == play(<< State >>, Solution)
        IN /\ \A n \in 1 .. Len(Solution) :
                  Solution[n].event.tag
                      \in {"Move", "Interact", "CrossRiver", "None"}
           /\ Len(states) = Len(Solution) + 1
           /\ \A n \in 1 .. Len(Solution) : states[n].phase = Playing
           /\ states[Len(states)].phase = Won

\* The state the solution ends in: won with no Drop ever made, all three
\* entities on the right dock where the boat unloaded them
C31_WonAtRightDock ==
    /\ phase = Won
    /\ drops = 0
    /\ \A e \in Entity : entities[e] = OnBank("Right", RIGHT_DOCK)

-----------------------------------------------------------------------------
\* C32: every reachable Won state has crossing_count of at least 7: no
\* sequence of events wins with fewer than seven completed crossings.
C32_WonTakesSevenCrossings ==
    phase = Won => crossing_count >= 7

\* A game won with exactly seven crossings
C32_WonInSevenCrossings ==
    /\ phase = Won
    /\ crossing_count = 7
    /\ boat = Docked("Right")
====
